---- MODULE Spec2Model ----
(***************************************************************************)
(* Model of PythonLinter.py: the two reporters (Pep8Reporter,              *)
(* PyFlakesReporter), the PythonLintCommand pipeline (run, _merge_errors,  *)
(* _display_errors, _underline_errors, _format_error, _get_description,    *)
(* _on_select) and the string helpers they use.                            *)
(*                                                                         *)
(* A Python str is a sequence of one-character strings.  An optional       *)
(* value (Error.code) is a sequence of length 0 (None) or 1.               *)
(***************************************************************************)
EXTENDS Integers, Sequences, FiniteSets, TLC

\* ---------------------------------------------------------------- bounds
MaxPep8 == 2        \* longest list the style checker reports in one run
MaxFlakes == 1      \* longest list the pattern checker reports in one run
MaxOffset == 5      \* largest column offset formatted in SpecFormat
MaxReports == 2     \* most reporter callbacks in SpecReporters

\* ------------------------------------------------------- Python strings
None == <<>>
Some(v) == <<v>>

Whitespace == {" ", "\t"}

Lower == <<"l", "u", "x", "o">>
Upper == <<"L", "U", "X", "O">>

\* str.upper() of one character
CharUpper(c) ==
  IF \E k \in 1..Len(Lower) : Lower[k] = c
  THEN Upper[CHOOSE k \in 1..Len(Lower) : Lower[k] = c]
  ELSE c

IsAlpha(c) == \E k \in 1..Len(Lower) : c = Lower[k] \/ c = Upper[k]

\* str.upper()
StrUpper(s) == [k \in 1..Len(s) |-> CharUpper(s[k])]

\* s[:1].upper() + s[1:]
upper_first_all(s) == StrUpper(s)
upper_first(s) == StrUpper(SubSeq(s, 1, 1)) \o SubSeq(s, 2, Len(s))

\* s.startswith(prefix)
StartsWith(s, prefix) ==
  /\ Len(prefix) <= Len(s)
  /\ SubSeq(s, 1, Len(prefix)) = prefix

\* s.lstrip(), s.rstrip(), s.strip()
RECURSIVE LStrip(_)
LStrip(s) ==
  IF s # <<>> /\ Head(s) \in Whitespace THEN LStrip(Tail(s)) ELSE s

RECURSIVE RStrip(_)
RStrip(s) ==
  IF s # <<>> /\ s[Len(s)] \in Whitespace
  THEN RStrip(SubSeq(s, 1, Len(s) - 1))
  ELSE s

Strip(s) == RStrip(LStrip(s))

\* s.find(sub): 0-based index of the first occurrence, -1 when absent
Find(s, sub) ==
  LET hits == {k \in 1..(Len(s) - Len(sub) + 1) :
                 SubSeq(s, k, k + Len(sub) - 1) = sub}
  IN IF hits = {} THEN -1
     ELSE (CHOOSE k \in hits : \A j \in hits : k <= j) - 1

\* '^'.rjust(width) generalised to any string
Spaces(n) == [k \in 1..n |-> " "]
RJust(s, width) ==
  IF width <= Len(s) THEN s ELSE Spaces(width - Len(s)) \o s

\* str(n) for n >= 0
Digits == <<"0", "1", "2", "3", "4", "5", "6", "7", "8", "9">>
RECURSIVE DecStr(_)
DecStr(n) ==
  IF n < 10 THEN <<Digits[n + 1]>>
  ELSE DecStr(n \div 10) \o <<Digits[(n % 10) + 1]>>

\* text.split(' ', 1)[1]; the option is empty when there is no second part
\* (IndexError)
SplitRest(text) ==
  LET k == Find(text, <<" ">>)
  IN IF k = -1 THEN None ELSE Some(SubSeq(text, k + 2, Len(text)))

\* A format template is a sequence of literal characters and replacement
\* fields; str.format substitutes each field found in `fields` (a function
\* from field to string).
RECURSIVE Format(_, _)
Format(template, fields) ==
  IF template = <<>> THEN <<>>
  ELSE (IF Head(template) \in DOMAIN fields
        THEN fields[Head(template)]
        ELSE <<Head(template)>>) \o Format(Tail(template), fields)

\* The literal string '{text}' and a formatted string re-read as a template
TextField == <<"{", "t", "e", "x", "t", "}">>

RECURSIVE AsTemplate(_)
AsTemplate(s) ==
  IF s = <<>> THEN <<>>
  ELSE IF StartsWith(s, TextField)
       THEN <<"{text}">> \o AsTemplate(SubSeq(s, Len(TextField) + 1, Len(s)))
       ELSE <<Head(s)>> \o AsTemplate(Tail(s))

\* message % message_args: every "%s" takes the next argument
RECURSIVE Interpolate(_, _)
Interpolate(message, message_args) ==
  IF message = <<>> THEN <<>>
  ELSE IF Head(message) = "%s" /\ message_args # <<>>
       THEN Head(message_args) \o Interpolate(Tail(message), Tail(message_args))
       ELSE <<Head(message)>> \o Interpolate(Tail(message), message_args)

\* ------------------------------------------------------------ Error
\* Error = namedtuple('Error', ['code', 'line', 'offset', 'text'])
Error(code, line, offset, text) ==
  [code |-> code, line |-> line, offset |-> offset, text |-> text]

\* ------------------------------------------------------------ settings
\* PythonLinter.sublime-settings as read through settings.get(key, default);
\* "nbsp" is the one character U+00A0 of the default error format
DefaultErrorFormat == <<"{code}", "nbsp", ":", " ", "{text}">>
DefaultDescriptionFormat ==
  <<"L", "{line}", ":", "C", "{column}", " ", "{text}">>

DisplayOff ==
  [underline_errors |-> FALSE, show_error_description |-> FALSE,
   show_error_offset_cursor |-> FALSE]
DisplayUnderline ==
  [underline_errors |-> TRUE, show_error_description |-> FALSE,
   show_error_offset_cursor |-> TRUE]
DisplayOn ==
  [underline_errors |-> TRUE, show_error_description |-> TRUE,
   show_error_offset_cursor |-> TRUE]

Settings(pep8, pyflakes, ignore, display, description_format) ==
  [pep8 |-> pep8, pyflakes |-> pyflakes, ignore |-> ignore,
   underline_errors |-> display.underline_errors,
   show_error_description |-> display.show_error_description,
   show_error_offset_cursor |-> display.show_error_offset_cursor,
   error_format |-> DefaultErrorFormat,
   description_format |-> description_format]

\* the shipped defaults: settings.get(key, default) with no key set
DefaultSettings ==
  Settings(TRUE, TRUE, <<>>, DisplayOn, DefaultDescriptionFormat)

\* a settings file that only turns the two extra panel lines off
PlainSettings ==
  Settings(TRUE, TRUE, <<>>, DisplayUnderline, DefaultDescriptionFormat)

\* the settings files a run can load
SettingsSet ==
  { PlainSettings,
    Settings(FALSE, TRUE, <<>>, DisplayOn, DefaultDescriptionFormat),
    Settings(TRUE, FALSE, << <<"E", "5">> >>, DisplayOn,
             DefaultDescriptionFormat),
    Settings(TRUE, FALSE, << <<"X">>, <<"W", "2", "9", "1">> >>, DisplayOff,
             DefaultDescriptionFormat),
    Settings(TRUE, TRUE, << <<"E", "5">> >>, DisplayOn,
             DefaultDescriptionFormat) }

\* ------------------------------------------------------------ host view
\* The buffer of the view, one string per line.
Buffer == << <<"x", "=", "l">>, <<" ", " ", "u", "x">>, <<>> >>

\* view.text_point(row, col): the request is kept as the pair it was made
\* with; the host resolves a row outside the buffer to its nearest line.
text_point(row, col) == <<row, col>>

HostRow(point) ==
  IF point[1] < 0 THEN 0
  ELSE IF point[1] >= Len(Buffer) THEN Len(Buffer) - 1
  ELSE point[1]

\* view.substr(view.line(point))
LineText(point) == Buffer[HostRow(point) + 1]

\* the point every handler asks the host for
ErrorPoint(error) == text_point(error.line - 1, error.offset)

\* ------------------------------------------------------------ presenter
\* PythonLintCommand._get_description
get_description(description_format, error, text) ==
  LET located_description ==
        Format(description_format,
               ("{line}" :> DecStr(error.line))
                 @@ ("{column}" :> DecStr(error.offset))
                 @@ ("{text}" :> TextField))
      text_offset == Find(located_description, TextField)
      description ==
        Format(AsTemplate(located_description), ("{text}" :> Strip(text)))
  IN [text_offset |-> text_offset, description |-> description]

\* width handed to '^'.rjust
CursorWidth_unshifted(offset, leading_spaces, text_offset) ==
  offset - leading_spaces + 1
CursorWidth(offset, leading_spaces, text_offset) ==
  offset - leading_spaces + text_offset + 1

\* the cursor line of an error block
Cursor(error, text, text_offset) ==
  IF Strip(text) # <<>> /\ text_offset # -1
  THEN LET leading_spaces == Len(text) - Len(LStrip(text))
       IN RJust(<<"^">>, CursorWidth(error.offset, leading_spaces, text_offset))
  ELSE <<>>

\* PythonLintCommand._format_error: a string, or a block of two or three
\* strings
format_error(cfg, error, text) ==
  LET base_error ==
        IF error.code # None
        THEN Format(cfg.error_format,
                    ("{code}" :> error.code[1]) @@ ("{text}" :> error.text))
        ELSE error.text
      d == get_description(cfg.description_format, error, text)
  IN IF cfg.show_error_description
     THEN IF cfg.show_error_offset_cursor
          THEN <<base_error, d.description, Cursor(error, text, d.text_offset)>>
          ELSE <<base_error, d.description>>
     ELSE base_error

\* ------------------------------------------------------------ aggregator
\* error_lists = [self.pyflakes_error_list, self.pep8_error_list]
ErrorLists_swapped(pyflakes_list, pep8_list) == pep8_list \o pyflakes_list
ErrorLists(pyflakes_list, pep8_list) == pyflakes_list \o pep8_list

\* any(error.code.startswith(ignore) for ignore in ignore_list); the
\* generator touches error.code only when ignore_list has an entry
Ignored(error, ignore_list) ==
  \E k \in 1..Len(ignore_list) : StartsWith(error.code[1], ignore_list[k])

\* error.code.startswith on a None code: AttributeError
IgnoreRaises(error, ignore_list) ==
  error.code = None /\ ignore_list # <<>>

\* one pass of the inner loop body of _merge_errors
Keep(error, ignore_list) ==
  error.code = None \/ ~Ignored(error, ignore_list)

\* the two nested loops of _merge_errors over `todo`, appending to `acc`
RECURSIVE MergeLoop(_, _, _)
MergeLoop(todo, acc, ignore_list) ==
  IF todo = <<>> THEN [error_list |-> acc, raised |-> FALSE]
  ELSE IF IgnoreRaises(Head(todo), ignore_list)
       THEN [error_list |-> acc, raised |-> TRUE]
       ELSE MergeLoop(Tail(todo),
                      IF Keep(Head(todo), ignore_list)
                      THEN Append(acc, Head(todo)) ELSE acc,
                      ignore_list)

\* PythonLintCommand._merge_errors
merge_errors(pyflakes_list, pep8_list, ignore_list) ==
  MergeLoop(ErrorLists(pyflakes_list, pep8_list), <<>>, ignore_list)

\* ------------------------------------------------------------ state
VARIABLES
  settings,             \* PythonLintCommand.settings
  error_list,           \* PythonLintCommand.error_list
  error_format,         \* PythonLintCommand.error_format
  description_format,   \* PythonLintCommand.description_format
  pep8_error_list,      \* PythonLintCommand.pep8_error_list
  pyflakes_error_list,  \* PythonLintCommand.pyflakes_error_list
  sel,                  \* view.sel(): the set of selected points
  shown,                \* the point last passed to view.show_at_center
  regions,              \* rows the latest handler passed to add_regions
  panel,                \* items the latest handler passed to show_quick_panel
  panel_open,           \* a quick panel waits for its on_select callback
  points,               \* text_point requests made by the latest handler
  last,                 \* the latest handler, its argument and its outcome
  produced,             \* what the backends reported in the latest lint
  pc,                   \* position of each overlapping run
  out,                  \* backend outputs of each overlapping run
  todo,                 \* errors each overlapping merge loop has left
  displayed,            \* the list each overlapping run displayed
  fmt_in,               \* SpecFormat: the arguments of _format_error
  fmt_out,              \* SpecFormat: its result
  pep8_report,          \* Pep8Reporter.error_list
  flakes_report,        \* PyFlakesReporter.error_list
  calls                 \* reporter callbacks made so far, in order

cmd_vars ==
  <<error_list, error_format, description_format, pep8_error_list,
    pyflakes_error_list>>
view_vars == <<sel, shown, regions, panel, panel_open, points>>
conc_vars == <<pc, out, todo, displayed>>
fmt_vars == <<fmt_in, fmt_out>>
rep_vars == <<pep8_report, flakes_report, calls>>
vars ==
  <<settings, cmd_vars, view_vars, last, produced, conc_vars, fmt_vars,
    rep_vars>>

\* ------------------------------------------------------------ backends
SeqsUpTo(S, n) == UNION { [1..k -> S] : k \in 0..n }

E501 == <<"E", "5", "0", "1">>
W291 == <<"W", "2", "9", "1">>

\* what pep8_checker.report.error_list can hold after check_all()
Pep8Errors ==
  { Error(Some(E501), 2, 3, <<"L", "x">>),
    Error(Some(W291), 1, 3, <<"X">>) }

\* what reporter.error_list can hold after check()
FlakeErrors ==
  { Error(None, 0, 0, <<"U">>),
    Error(None, 1, 2, <<"'", "o", "'", " ", "x">>) }

Pep8Outputs == SeqsUpTo(Pep8Errors, MaxPep8)
FlakeOutputs == SeqsUpTo(FlakeErrors, MaxFlakes)

\* ------------------------------------------------------------ Init
Idle == [op |-> "init", index |-> 0, result |-> "ok"]
NothingProduced == [pyflakes |-> <<>>, pep8 |-> <<>>, ignore |-> <<>>]

\* PythonLintCommand.__init__ and an untouched view
InitCommand ==
  /\ error_list = <<>>
  /\ error_format = <<>>
  /\ description_format = <<>>
  /\ pep8_error_list = <<>>
  /\ pyflakes_error_list = <<>>
  /\ sel = {text_point(0, 0)}
  /\ shown = text_point(0, 0)
  /\ regions = <<>>
  /\ panel = <<>>
  /\ panel_open = FALSE
  /\ points = {}
  /\ last = Idle
  /\ produced = NothingProduced

InitConc ==
  /\ pc = [r \in {1, 2} |-> "idle"]
  /\ out = [r \in {1, 2} |-> [pyflakes |-> <<>>, pep8 |-> <<>>]]
  /\ todo = [r \in {1, 2} |-> <<>>]
  /\ displayed = [r \in {1, 2} |-> <<>>]

InitFormat ==
  /\ fmt_in = <<>>
  /\ fmt_out = <<>>

\* Pep8Reporter.__init__, PyFlakesReporter.__init__
InitReporters ==
  /\ pep8_report = <<>>
  /\ flakes_report = <<>>
  /\ calls = <<>>

Init ==
  /\ settings = None
  /\ InitCommand
  /\ InitConc
  /\ InitFormat
  /\ InitReporters

\* ------------------------------------------------------------ commands
\* what _format_error reads from self once run has loaded `loaded`; run
\* copies the two formats from the settings it loaded
CfgOf(loaded) ==
  [error_format |-> loaded.error_format,
   description_format |-> loaded.description_format,
   show_error_description |-> loaded.show_error_description,
   show_error_offset_cursor |-> loaded.show_error_offset_cursor]

\* PythonLintCommand._underline_errors: the regions handed to add_regions
underline_errors(list) ==
  [i \in 1..Len(list) |-> HostRow(ErrorPoint(list[i]))]

\* PythonLintCommand._display_errors, reading the list _merge_errors left
display_errors ==
  /\ regions' = IF settings'.underline_errors
                THEN underline_errors(error_list') ELSE <<>>
  /\ panel' = [i \in 1..Len(error_list') |->
                 format_error(CfgOf(settings'), error_list'[i],
                              LineText(ErrorPoint(error_list'[i])))]
  /\ panel_open' = TRUE
  /\ points' = IF settings'.underline_errors
                  \/ settings'.show_error_description
               THEN {ErrorPoint(error_list'[i]) : i \in 1..Len(error_list')}
               ELSE {}

\* PythonLintCommand.run; `loaded` is what sublime.load_settings returns,
\* `lintable` is
\* filename is not None and view.match_selector(0, 'source.python')
run(loaded, lintable, pep8_out, pyflakes_out) ==
  /\ settings' = loaded
  /\ IF ~lintable
     THEN /\ last' = [op |-> "run", index |-> 0, result |-> "skipped"]
          /\ points' = {}
          /\ regions' = <<>>
          /\ panel' = <<>>
          /\ UNCHANGED <<cmd_vars, sel, shown, panel_open, produced>>
     ELSE LET new_pep8 == IF loaded.pep8 THEN pep8_out ELSE pep8_error_list
              new_pyflakes ==
                IF loaded.pyflakes THEN pyflakes_out ELSE pyflakes_error_list
              m == merge_errors(new_pyflakes, new_pep8, loaded.ignore)
          IN /\ error_format' = loaded.error_format
             /\ description_format' = loaded.description_format
             /\ pep8_error_list' = new_pep8
             /\ pyflakes_error_list' = new_pyflakes
             /\ error_list' = m.error_list
             /\ produced' =
                  [pyflakes |-> IF loaded.pyflakes THEN pyflakes_out ELSE <<>>,
                   pep8 |-> IF loaded.pep8 THEN pep8_out ELSE <<>>,
                   ignore |-> loaded.ignore]
             /\ IF m.raised
                THEN /\ last' = [op |-> "run", index |-> 0,
                                 result |-> "AttributeError"]
                     /\ points' = {}
                     /\ regions' = <<>>
                     /\ panel' = <<>>
                     /\ UNCHANGED panel_open
                ELSE /\ last' = [op |-> "run", index |-> 0, result |-> "ok"]
                     /\ display_errors
             /\ UNCHANGED <<sel, shown>>

\* a backend that run does not call reports nothing
Reports(called, outputs) == IF called THEN outputs ELSE {<<>>}

Run ==
  /\ \E loaded \in SettingsSet, lintable \in BOOLEAN :
       \E pep8_out \in Reports(lintable /\ loaded.pep8, Pep8Outputs),
          pyflakes_out \in Reports(lintable /\ loaded.pyflakes, FlakeOutputs) :
         run(loaded, lintable, pep8_out, pyflakes_out)
  /\ UNCHANGED <<conc_vars, fmt_vars, rep_vars>>

\* 0 <= index < len(self.error_list)
InRange_unbounded_below(index, length) == index < length
InRange(index, length) == 0 <= index /\ index < length

\* list[index] as Python resolves it: negative indices count from the end
PyIndex(index, length) == IF index < 0 THEN length + index + 1 ELSE index + 1

\* PythonLintCommand._on_select
on_select(index) ==
  IF InRange(index, Len(error_list))
  THEN IF PyIndex(index, Len(error_list)) \in 1..Len(error_list)
       THEN LET error == error_list[PyIndex(index, Len(error_list))]
                point == ErrorPoint(error)
            IN /\ sel' = {point}
               /\ shown' = point
               /\ points' = {point}
               /\ last' = [op |-> "on_select", index |-> index,
                           result |-> "ok"]
       ELSE /\ last' = [op |-> "on_select", index |-> index,
                        result |-> "IndexError"]
            /\ points' = {}
            /\ UNCHANGED <<sel, shown>>
  ELSE /\ last' = [op |-> "on_select", index |-> index, result |-> "ok"]
       /\ points' = {}
       /\ UNCHANGED <<sel, shown>>

\* the quick panel reports the chosen row, or -1 when it is cancelled
OnSelect ==
  /\ panel_open
  /\ \E index \in -1..(MaxPep8 + MaxFlakes) : on_select(index)
  /\ panel_open' = FALSE
  /\ regions' = <<>>
  /\ panel' = <<>>
  /\ UNCHANGED <<settings, cmd_vars, produced, conc_vars, fmt_vars, rep_vars>>

\* lint runs of one command instance, each under freshly loaded settings
Next == Run

Spec == Init /\ [][Next]_vars

\* lint runs with one-line panel items, and the quick panel's callback
RunPlain ==
  /\ \E lintable \in BOOLEAN :
       \E pep8_out \in Reports(lintable, Pep8Outputs),
          pyflakes_out \in Reports(lintable, FlakeOutputs) :
         run(PlainSettings, lintable, pep8_out, pyflakes_out)
  /\ UNCHANGED <<conc_vars, fmt_vars, rep_vars>>

NextSelect == RunPlain \/ OnSelect

SpecSelect == Init /\ [][NextSelect]_vars

\* ------------------------------------------------------------ SpecConc
\* Two runs of the same command instance whose steps interleave: one started
\* by on_post_save_async, one by the command itself.  Each run reads and
\* writes the attributes of the shared instance one statement at a time.
Runs == {1, 2}

\* run, lines 231-240: load the settings, read the buffer (the backends of
\* this run will report out[r] on it), copy the two formats
Start(r) ==
  /\ pc[r] = "idle"
  /\ settings' = DefaultSettings
  /\ error_format' = DefaultSettings.error_format
  /\ description_format' = DefaultSettings.description_format
  /\ \E pep8_out \in SeqsUpTo(Pep8Errors, 1),
        pyflakes_out \in SeqsUpTo(FlakeErrors, 1) :
       out' = [out EXCEPT ![r] = [pyflakes |-> pyflakes_out,
                                  pep8 |-> pep8_out]]
  /\ pc' = [pc EXCEPT ![r] = "loaded"]
  /\ UNCHANGED <<error_list, pep8_error_list, pyflakes_error_list,
                 view_vars, last, produced, todo, displayed, fmt_vars,
                 rep_vars>>

\* run, lines 242-243: _run_pep8 stores its report
RunPep8(r) ==
  /\ pc[r] = "loaded"
  /\ pep8_error_list' =
       IF settings.pep8 THEN out[r].pep8 ELSE pep8_error_list
  /\ pc' = [pc EXCEPT ![r] = "pep8_done"]
  /\ UNCHANGED <<settings, error_list, error_format, description_format,
                 pyflakes_error_list, view_vars, last, produced, out, todo,
                 displayed, fmt_vars, rep_vars>>

\* run, lines 244-245: _run_pyflakes stores its report
RunPyflakes(r) ==
  /\ pc[r] = "pep8_done"
  /\ pyflakes_error_list' =
       IF settings.pyflakes THEN out[r].pyflakes ELSE pyflakes_error_list
  /\ pc' = [pc EXCEPT ![r] = "pyflakes_done"]
  /\ UNCHANGED <<settings, error_list, error_format, description_format,
                 pep8_error_list, view_vars, last, produced, out, todo,
                 displayed, fmt_vars, rep_vars>>

\* _merge_errors, lines 158-161: reset the shared list, take the two lists
\* to loop over
MergeStart(r) ==
  /\ pc[r] = "pyflakes_done"
  /\ error_list' = <<>>
  /\ todo' = [todo EXCEPT
                ![r] = ErrorLists(pyflakes_error_list, pep8_error_list)]
  /\ pc' = [pc EXCEPT ![r] = "merging"]
  /\ UNCHANGED <<settings, error_format, description_format,
                 pep8_error_list, pyflakes_error_list, view_vars, last,
                 produced, out, displayed, fmt_vars, rep_vars>>

\* _merge_errors, lines 164-168: one pass of the loop body, appending to
\* whatever list self.error_list is now
MergeStep(r) ==
  /\ pc[r] = "merging"
  /\ todo[r] # <<>>
  /\ IF IgnoreRaises(Head(todo[r]), settings.ignore)
     THEN /\ pc' = [pc EXCEPT ![r] = "raised"]
          /\ UNCHANGED <<error_list, todo>>
     ELSE /\ error_list' = IF Keep(Head(todo[r]), settings.ignore)
                           THEN Append(error_list, Head(todo[r]))
                           ELSE error_list
          /\ todo' = [todo EXCEPT ![r] = Tail(todo[r])]
          /\ UNCHANGED pc
  /\ UNCHANGED <<settings, error_format, description_format,
                 pep8_error_list, pyflakes_error_list, view_vars, last,
                 produced, out, displayed, fmt_vars, rep_vars>>

\* run, line 248: _display_errors shows whatever self.error_list holds
Display(r) ==
  /\ pc[r] = "merging"
  /\ todo[r] = <<>>
  /\ UNCHANGED <<settings, cmd_vars>>
  /\ display_errors
  /\ displayed' = [displayed EXCEPT ![r] = error_list]
  /\ pc' = [pc EXCEPT ![r] = "done"]
  /\ UNCHANGED <<sel, shown, last, produced, out, todo, fmt_vars, rep_vars>>

NextConc ==
  \E r \in Runs :
    \/ Start(r)
    \/ RunPep8(r)
    \/ RunPyflakes(r)
    \/ MergeStart(r)
    \/ MergeStep(r)
    \/ Display(r)

SpecConc == Init /\ [][NextConc]_vars

\* ------------------------------------------------------------ SpecFormat
\* _format_error on its own: one error, the source line the host returned
\* for it, and the configuration, all drawn from bounded sets.
SourceLines ==
  { <<>>,
    <<" ", " ">>,
    <<"x", "=", "l">>,
    <<"\t", "x">>,
    <<" ", " ", "u", "x", " ">>,
    <<" ", " ", " ", " ", "x", "=", "l">>,
    <<" ", " ", " ", " ", " ", " ", " ", " ", "x">> }

DescriptionFormats ==
  { DefaultDescriptionFormat, <<"{text}">>, <<"L", "{line}">> }

DisplayDescription ==
  [underline_errors |-> TRUE, show_error_description |-> TRUE,
   show_error_offset_cursor |-> FALSE]

FormatInputs ==
  { [cfg |-> CfgOf(Settings(TRUE, TRUE, <<>>, d, f)),
     error |-> Error(c, l, o, <<"L", "x">>),
     text |-> t] :
      d \in {DisplayOn, DisplayDescription, DisplayOff},
      f \in DescriptionFormats,
      c \in {None, Some(E501)},
      l \in {1, 12},
      o \in 0..MaxOffset,
      t \in SourceLines }

InitFormatting ==
  /\ settings = None
  /\ InitCommand
  /\ InitConc
  /\ InitReporters
  /\ fmt_in \in FormatInputs
  /\ fmt_out = None

FormatError ==
  /\ fmt_out = None
  /\ fmt_out' = Some(format_error(fmt_in.cfg, fmt_in.error, fmt_in.text))
  /\ UNCHANGED <<settings, cmd_vars, view_vars, last, produced, conc_vars,
                 rep_vars, fmt_in>>

NextFormat == FormatError

SpecFormat == InitFormatting /\ [][NextFormat]_vars

\* ------------------------------------------------------------ SpecReporters
\* The callbacks the two backends make on the reporters.
Call(kind, msg, args, lineno, offset, accepted) ==
  [kind |-> kind, msg |-> msg, args |-> args, lineno |-> lineno,
   offset |-> offset, accepted |-> accepted]

\* "EXXX error description" texts the style checker hands to error()
Pep8Texts ==
  { E501 \o <<" ", "l", "o">>,
    W291 \o <<" ", "x", " ", "u", " ">>,
    E501 \o <<" ", "L", "o">> }

\* messages of check(): decoding problems, syntax errors, flake templates
UnexpectedMessages == { <<"u", "x">>, <<"'", "x">> }
SyntaxMessages == { <<"x", "o">>, <<"X", "o">> }
FlakeMessages ==
  { [message |-> <<"'", "%s", "'", " ", "u">>, message_args |-> << <<"o", "x">> >>],
    [message |-> <<"u", " ", "%s">>, message_args |-> << <<"x">> >>] }

Locations == { <<1, 0>>, <<2, 3>> }

\* Pep8Reporter.error once BaseReport.error has returned `code`
Pep8Diagnostic(code, line, offset, text) ==
  Error(Some(code), line, offset, upper_first(Strip(SplitRest(text)[1])))

\* Pep8Reporter.error; BaseReport.error returns text[:4], or None when it
\* filters the report out
Pep8ReporterError(line_offset, line_number, offset, text, accepted) ==
  /\ calls' = Append(calls, Call("pep8", text, <<>>, line_offset + line_number,
                                 offset, accepted))
  /\ IF ~accepted
     THEN /\ last' = [op |-> "error", index |-> 0, result |-> "ok"]
          /\ UNCHANGED pep8_report
     ELSE IF SplitRest(text) = None
     THEN /\ last' = [op |-> "error", index |-> 0, result |-> "IndexError"]
          /\ UNCHANGED pep8_report
     ELSE /\ last' = [op |-> "error", index |-> 0, result |-> "ok"]
          /\ pep8_report' =
               Append(pep8_report,
                      Pep8Diagnostic(SubSeq(text, 1, 4),
                                     line_offset + line_number, offset, text))
  /\ UNCHANGED flakes_report

\* the Error each PyFlakesReporter callback builds
UnexpectedDiagnostic(msg) == Error(None, 0, 0, upper_first(msg))

SyntaxDiagnostic_swapped(msg, lineno, offset) ==
  Error(None, offset, lineno, upper_first(msg))
SyntaxDiagnostic(msg, lineno, offset) ==
  Error(None, lineno, offset, upper_first(msg))

FlakeDiagnostic(message, message_args, lineno, col) ==
  Error(None, lineno, col, upper_first(Interpolate(message, message_args)))

\* PyFlakesReporter.unexpectedError
unexpectedError(msg) ==
  /\ calls' = Append(calls, Call("unexpectedError", msg, <<>>, 0, 0, TRUE))
  /\ flakes_report' = Append(flakes_report, UnexpectedDiagnostic(msg))
  /\ last' = [op |-> "unexpectedError", index |-> 0, result |-> "ok"]
  /\ UNCHANGED pep8_report

\* PyFlakesReporter.syntaxError
syntaxError(msg, lineno, offset) ==
  /\ calls' = Append(calls, Call("syntaxError", msg, <<>>, lineno, offset, TRUE))
  /\ flakes_report' =
       Append(flakes_report, SyntaxDiagnostic(msg, lineno, offset))
  /\ last' = [op |-> "syntaxError", index |-> 0, result |-> "ok"]
  /\ UNCHANGED pep8_report

\* PyFlakesReporter.flake
flake(error) ==
  /\ calls' = Append(calls, Call("flake", error.message, error.message_args,
                                 error.lineno, error.col, TRUE))
  /\ flakes_report' =
       Append(flakes_report,
              FlakeDiagnostic(error.message, error.message_args,
                              error.lineno, error.col))
  /\ last' = [op |-> "flake", index |-> 0, result |-> "ok"]
  /\ UNCHANGED pep8_report

ReporterFrame ==
  UNCHANGED <<settings, cmd_vars, view_vars, produced, conc_vars, fmt_vars>>

Pep8Report ==
  /\ Len(calls) < MaxReports
  /\ \E line_offset \in {0, 2}, at \in Locations, text \in Pep8Texts,
        accepted \in BOOLEAN :
       Pep8ReporterError(line_offset, at[1], at[2], text, accepted)
  /\ ReporterFrame

UnexpectedError ==
  /\ Len(calls) < MaxReports
  /\ \E msg \in UnexpectedMessages : unexpectedError(msg)
  /\ ReporterFrame

SyntaxError ==
  /\ Len(calls) < MaxReports
  /\ \E msg \in SyntaxMessages, at \in Locations :
       syntaxError(msg, at[1], at[2])
  /\ ReporterFrame

Flake ==
  /\ Len(calls) < MaxReports
  /\ \E m \in FlakeMessages, at \in Locations :
       flake([message |-> m.message, message_args |-> m.message_args,
              lineno |-> at[1], col |-> at[2]])
  /\ ReporterFrame

NextReporters == Pep8Report \/ UnexpectedError \/ SyntaxError \/ Flake

SpecReporters == Init /\ [][NextReporters]_vars

\* ------------------------------------------------------------ properties
Range(s) == { s[i] : i \in 1..Len(s) }

\* a is b with some elements left out
RECURSIVE IsSubseq(_, _)
IsSubseq(a, b) ==
  IF a = <<>> THEN TRUE
  ELSE IF b = <<>> THEN FALSE
  ELSE IF Head(a) = Head(b) THEN IsSubseq(Tail(a), Tail(b))
  ELSE IsSubseq(a, Tail(b))

\* the latest handler was a run that got as far as _merge_errors
Linted == last.op = "run" /\ last.result # "skipped"

\* the two lists _merge_errors read, in the order it read them
MergeInput == pyflakes_error_list \o pep8_error_list

\* C1: whatever the backends reported and whatever the ignore list, the
\* merge of a lint run completes without raising and every diagnostic with
\* a null code is in the merged error_list.
C1_NullCodeAlwaysMerged ==
  Linted =>
    /\ last.result = "ok"
    /\ \A i \in 1..Len(MergeInput) :
         MergeInput[i].code = None => MergeInput[i] \in Range(error_list)

\* C2: after a lint run, error_list holds only diagnostics that the
\* backends enabled in that run reported in that run.
C2_OnlyThisRunsDiagnostics ==
  Linted => IsSubseq(error_list, produced.pyflakes \o produced.pep8)

\* C3: after a lint run, a diagnostic with a code is missing from the merged
\* list exactly when its code starts with an entry of the ignore list.
C3_DroppedIffPrefixed ==
  Linted =>
    \A i \in 1..Len(MergeInput) :
      MergeInput[i].code # None =>
        ( MergeInput[i] \notin Range(error_list)
          <=> \E k \in 1..Len(produced.ignore) :
                StartsWith(MergeInput[i].code[1], produced.ignore[k]) )

\* C4: error_list is always an order-preserving subsequence of the pyflakes
\* diagnostics followed by the pep8 diagnostics, never longer than the two
\* together, and equal to their concatenation when the ignore list of the
\* run that built it is empty.
C4_StableMerge ==
  /\ IsSubseq(error_list, MergeInput)
  /\ Len(error_list) <= Len(pyflakes_error_list) + Len(pep8_error_list)
  /\ produced.ignore = <<>> => error_list = MergeInput

\* a run merged a pyflakes diagnostic in front of two different pep8 ones
C4_Witness ==
  /\ last = [op |-> "run", index |-> 0, result |-> "ok"]
  /\ Len(pyflakes_error_list) >= 1
  /\ Len(pep8_error_list) = 2
  /\ pep8_error_list[1].line > pep8_error_list[2].line
  /\ error_list = MergeInput

\* C5: a step of _on_select with an index outside 0..len(error_list)-1
\* leaves the selection, the scroll position and error_list as they were and
\* does not raise; with an index inside, the selection and the centred point
\* become (line - 1, offset) of the diagnostic at that index.
C5_OnSelectStep ==
  (panel_open /\ ~panel_open') =>
    /\ last'.op = "on_select"
    /\ last'.result = "ok"
    /\ error_list' = error_list
    /\ IF 0 <= last'.index /\ last'.index < Len(error_list)
       THEN LET error == error_list[last'.index + 1]
            IN /\ sel' = {<<error.line - 1, error.offset>>}
               /\ shown' = <<error.line - 1, error.offset>>
       ELSE sel' = sel /\ shown' = shown

C5_OnSelect == [][C5_OnSelectStep]_vars

\* the panel was cancelled (index -1) while error_list held diagnostics, and
\* the cursor is still where the view started
C5_Witness ==
  /\ last = [op |-> "on_select", index |-> -1, result |-> "ok"]
  /\ error_list # <<>>
  /\ sel = {<<0, 0>>}

\* C6: no handler asks the host for a buffer position with a negative row
\* or a negative column, also when a diagnostic has line = 0.
C6_NoNegativePosition ==
  \A p \in points : p[1] >= 0 /\ p[2] >= 0

\* the error block of SpecFormat, when both extra lines are switched on
HasCursorLine ==
  /\ fmt_out # None
  /\ fmt_in.cfg.show_error_description
  /\ fmt_in.cfg.show_error_offset_cursor

Description == fmt_out[1][2]
CursorLine == fmt_out[1][3]

\* number of whitespace characters in front of the first other character
RECURSIVE LeadingWhitespace(_)
LeadingWhitespace(text) ==
  IF text # <<>> /\ Head(text) \in Whitespace
  THEN 1 + LeadingWhitespace(Tail(text))
  ELSE 0

IsBlank(text) == \A k \in 1..Len(text) : text[k] \in Whitespace

\* the source line without the whitespace at its two ends
Trimmed(text) ==
  LET keep == {k \in 1..Len(text) : text[k] \notin Whitespace}
  IN IF keep = {} THEN <<>>
     ELSE SubSeq(text, CHOOSE k \in keep : \A j \in keep : k <= j,
                 CHOOSE k \in keep : \A j \in keep : j <= k)

HasTextField == \E k \in 1..Len(fmt_in.cfg.description_format) :
                  fmt_in.cfg.description_format[k] = "{text}"

\* 0-based column of the description line at which the trimmed text starts:
\* the length of what the format puts in front of its first text field
RECURSIVE TextStart(_, _)
TextStart(template, error) ==
  IF Head(template) = "{text}" THEN 0
  ELSE (IF Head(template) = "{line}" THEN Len(DecStr(error.line))
        ELSE IF Head(template) = "{column}" THEN Len(DecStr(error.offset))
        ELSE 1) + TextStart(Tail(template), error)

\* exactly one '^', with only spaces in front of it
IsCaretLine(line) ==
  /\ line # <<>>
  /\ line[Len(line)] = "^"
  /\ \A k \in 1..(Len(line) - 1) : line[k] = " "

Max(a, b) == IF a >= b THEN a ELSE b

\* C7 as claimed: with both extra lines on, a blank source line or a format
\* without text field gives an empty caret line; otherwise the caret line is
\* one '^' after spaces, at 1-based column offset - leading whitespace + 1
\* counted from where the trimmed text starts in the description line.
C7_CaretUnderOffset ==
  HasCursorLine =>
    IF IsBlank(fmt_in.text) \/ ~HasTextField
    THEN CursorLine = <<>>
    ELSE /\ IsCaretLine(CursorLine)
         /\ Len(CursorLine)
              - TextStart(fmt_in.cfg.description_format, fmt_in.error)
            = fmt_in.error.offset - LeadingWhitespace(fmt_in.text) + 1

\* C7 amended: the '^' is at 1-based column
\* max(1, text start + offset - leading whitespace + 1) of the description
\* line, the trimmed text is shown from the text start on, and whenever the
\* offset points into the trimmed text the '^' is under that character.
C7_CaretColumn ==
  HasCursorLine =>
    IF IsBlank(fmt_in.text) \/ ~HasTextField
    THEN CursorLine = <<>>
    ELSE LET start == TextStart(fmt_in.cfg.description_format, fmt_in.error)
             leading == LeadingWhitespace(fmt_in.text)
             offset == fmt_in.error.offset
             shown_text == Trimmed(fmt_in.text)
         IN /\ IsCaretLine(CursorLine)
            /\ Len(CursorLine) = Max(1, start + offset - leading + 1)
            /\ SubSeq(Description, start + 1, start + Len(shown_text))
                 = shown_text
            /\ (leading <= offset /\ offset < leading + Len(shown_text)) =>
                 /\ Len(CursorLine) - start = offset - leading + 1
                 /\ Description[Len(CursorLine)] = fmt_in.text[offset + 1]

\* the spec's scenario: "    x=l" with offset 5 under the default format
C7_Witness ==
  /\ HasCursorLine
  /\ fmt_in.text = <<" ", " ", " ", " ", "x", "=", "l">>
  /\ fmt_in.error.offset = 5
  /\ fmt_in.cfg.description_format = DefaultDescriptionFormat
  /\ IsCaretLine(CursorLine)
  /\ Description[Len(CursorLine)] = "="

\* the callbacks that reached each reporter's error_list
IsFlakeCall(c) == c.kind # "pep8"
IsKeptPep8Call(c) == c.kind = "pep8" /\ c.accepted
FlakeCalls == SelectSeq(calls, IsFlakeCall)
KeptPep8Calls == SelectSeq(calls, IsKeptPep8Call)

\* the backend's message behind a callback: the style checker's text
\* without its rule code, a flake's template with its arguments applied
Message(c) ==
  IF c.kind = "pep8" THEN Strip(SubSeq(c.msg, 6, Len(c.msg)))
  ELSE IF c.kind = "flake" THEN Interpolate(c.msg, c.args)
  ELSE c.msg

\* every (message, text) pair the two reporters hold
Reported ==
  { <<Message(FlakeCalls[i]), flakes_report[i].text>> :
      i \in 1..Len(flakes_report) }
  \cup { <<Message(KeptPep8Calls[i]), pep8_report[i].text>> :
           i \in 1..Len(pep8_report) }

ReportsMatchCalls ==
  /\ Len(flakes_report) = Len(FlakeCalls)
  /\ Len(pep8_report) = Len(KeptPep8Calls)

\* position of the first alphabetic character, 0 when there is none
FirstAlpha(m) ==
  LET alpha == {k \in 1..Len(m) : IsAlpha(m[k])}
  IN IF alpha = {} THEN 0 ELSE CHOOSE k \in alpha : \A j \in alpha : k <= j

\* C8 as claimed: the text of a diagnostic is the backend's message with its
\* first alphabetic character uppercased and every other character
\* unchanged.
C8_FirstAlphabeticUppercased ==
  /\ ReportsMatchCalls
  /\ \A r \in Reported :
       /\ Len(r[2]) = Len(r[1])
       /\ \A k \in 1..Len(r[1]) :
            r[2][k] = IF k = FirstAlpha(r[1]) THEN CharUpper(r[1][k])
                      ELSE r[1][k]

\* C8 amended: the text is the message with its first character uppercased
\* (which changes it only if it is a lower-case letter) and every other
\* character unchanged; capitalising the text again changes nothing.
C8_FirstCharacterUppercased ==
  /\ ReportsMatchCalls
  /\ \A r \in Reported :
       /\ Len(r[2]) = Len(r[1])
       /\ \A k \in 1..Len(r[1]) :
            r[2][k] = IF k = 1 THEN CharUpper(r[1][k]) ELSE r[1][k]
       /\ upper_first(r[2]) = r[2]

\* the style checker's "E501 lo" became "Lo", and a flake whose message
\* starts with a quote was reported too
C8_Witness ==
  /\ <<(<<"l", "o">>), (<<"L", "o">>)>> \in Reported
  /\ \E r \in Reported : r[1] # <<>> /\ r[1][1] = "'" /\ r[2] = r[1]

\* C10: PyFlakesReporter.error_list holds one diagnostic per callback, in
\* callback order, each with a null code; an unexpected error has line 0 and
\* offset 0, a syntax error or a flake the line and column of the callback;
\* no callback raises.
C10_OneDiagnosticPerCallback ==
  /\ Len(flakes_report) = Len(FlakeCalls)
  /\ last.result = "ok"
  /\ \A i \in 1..Len(FlakeCalls) :
       /\ flakes_report[i].code = None
       /\ flakes_report[i].line = FlakeCalls[i].lineno
       /\ flakes_report[i].offset = FlakeCalls[i].offset
       /\ FlakeCalls[i].kind = "unexpectedError" =>
            flakes_report[i].line = 0 /\ flakes_report[i].offset = 0

\* an unexpected error followed by a syntax error at line 2, column 3
C10_Witness ==
  /\ Len(FlakeCalls) = 2
  /\ FlakeCalls[1].kind = "unexpectedError"
  /\ FlakeCalls[2].kind = "syntaxError"
  /\ flakes_report[1].line = 0
  /\ flakes_report[2].line = 2 /\ flakes_report[2].offset = 3

\* what a run on its own would merge from the reports of its backends
MergedAlone(r) ==
  merge_errors(out[r].pyflakes, out[r].pep8, DefaultSettings.ignore).error_list

\* C9: with two overlapping runs, the list a run displays, and the
\* error_list left when both are done, is the merge of the backend reports
\* of one single run.
C9_RunsStayIndependent ==
  /\ \A r \in Runs :
       pc[r] = "done" =>
         \E q \in Runs : pc[q] # "idle" /\ displayed[r] = MergedAlone(q)
  /\ (\A r \in Runs : pc[r] = "done") =>
       \E q \in Runs : error_list = MergedAlone(q)

====
